---- MODULE Spec2Model ----
(***************************************************************************)
(* Model of pycurl.py: one invocation of main() after docopt has produced  *)
(* the arguments dictionary.  Strings are sequences of lexical units (one  *)
(* character each, except the JSON lexemes "null", "false" and the quoted  *)
(* strings, which are kept whole).                                         *)
(***************************************************************************)
EXTENDS Integers, Sequences, FiniteSets, TLC

\* ---------------------------------------------------------------- bounds
MaxUrlFrags == 3
MaxEntryLen == 2
MaxHeaders == 2
MaxDataLen == 3

\* ------------------------------------------------------ string utilities
SeqsUpTo(S, n) == UNION {[1..k -> S] : k \in 0..n}

RECURSIVE Join(_)
\* ''.join(x)
Join(x) == IF x = <<>> THEN <<>> ELSE Head(x) \o Join(Tail(x))

RECURSIVE Count(_, _)
\* str.count(c) for a one-character c
Count(s, c) ==
  IF s = <<>> THEN 0
  ELSE (IF Head(s) = c THEN 1 ELSE 0) + Count(Tail(s), c)

RECURSIVE Split(_, _)
\* str.split(c): every occurrence of c separates two (possibly empty) parts
Split(s, c) ==
  IF \A i \in 1..Len(s) : s[i] # c THEN <<s>>
  ELSE LET p == CHOOSE i \in 1..Len(s) :
                  s[i] = c /\ \A j \in 1..(i-1) : s[j] # c
       IN <<SubSeq(s, 1, p-1)>> \o Split(SubSeq(s, p+1, Len(s)), c)

\* a Python dict with string keys
EmptyDict == [k \in {} |-> <<>>]
DictPut(d, k, v) == [x \in (DOMAIN d) \cup {k} |-> IF x = k THEN v ELSE d[x]]

\* ------------------------------------------------- '<url>' sub-schema
\* r"^http(s)?:\/\/" as a sequence of items, each optional or not
UrlPattern ==
  << [ch |-> "h", opt |-> FALSE], [ch |-> "t", opt |-> FALSE],
     [ch |-> "t", opt |-> FALSE], [ch |-> "p", opt |-> FALSE],
     [ch |-> "s", opt |-> TRUE],
     [ch |-> ":", opt |-> FALSE], [ch |-> "/", opt |-> FALSE],
     [ch |-> "/", opt |-> FALSE] >>

RECURSIVE MatchFrom(_, _, _, _)
MatchFrom(s, i, p, j) ==
  IF j > Len(p) THEN TRUE
  ELSE \/ (i <= Len(s) /\ s[i] = p[j].ch /\ MatchFrom(s, i+1, p, j+1))
       \/ (p[j].opt /\ MatchFrom(s, i, p, j+1))

\* a search that is not anchored may start at any position
UrlSearchStartsAnywhere(s) == 1..(Len(s) + 1)

\* the leading ^ (no MULTILINE flag) lets the search start at position 1 only
UrlSearchStarts(s) == {1}

\* Regex(...).validate: pattern.search(data) is a match
UrlValid(s) == \E i \in UrlSearchStarts(s) : MatchFrom(s, i, UrlPattern, 1)

\* --------------------------------------------- '--headers' sub-schema
\* And(lambda x: '=' in ''.join(x), lambda y: ''.join(y).count('=') == len(y))
\* (Or(None, ...): docopt gives a list, never None, for a repeatable option)
HeadersValid(x) ==
  /\ Count(Join(x), "=") > 0
  /\ Count(Join(x), "=") = Len(x)

\* header.split('=')[1] raises IndexError when the entry has no '='
HeadersRaise(hs) == \E i \in 1..Len(hs) : Len(Split(hs[i], "=")) < 2

RECURSIVE HeaderDictFrom(_, _)
HeaderDictFrom(hs, d) ==
  IF hs = <<>> THEN d
  ELSE LET parts == Split(Head(hs), "=")
       IN HeaderDictFrom(Tail(hs), DictPut(d, parts[1], parts[2]))

\* {header.split('=')[0]: header.split('=')[1] for header in ...}
HeaderDict(hs) == HeaderDictFrom(hs, EmptyDict)

\* ------------------------------------------------------------ json.loads
\* Python values, all of one record shape
JNull == [kind |-> "null", num |-> 0, str |-> <<>>, items |-> <<>>, membs |-> EmptyDict]
JBool(b) == [kind |-> "bool", num |-> IF b THEN 1 ELSE 0, str |-> <<>>, items |-> <<>>, membs |-> EmptyDict]
JNum(n) == [kind |-> "num", num |-> n, str |-> <<>>, items |-> <<>>, membs |-> EmptyDict]
JStr(s) == [kind |-> "str", num |-> 0, str |-> s, items |-> <<>>, membs |-> EmptyDict]
JArr(a) == [kind |-> "arr", num |-> 0, str |-> <<>>, items |-> a, membs |-> EmptyDict]
JObj(m) == [kind |-> "obj", num |-> 0, str |-> <<>>, items |-> <<>>, membs |-> m]
PyNone == JNull

\* bool(value)
Truthy(v) ==
  CASE v.kind = "null" -> FALSE
    [] v.kind \in {"bool", "num"} -> v.num # 0
    [] v.kind = "str" -> v.str # <<>>
    [] v.kind = "arr" -> v.items # <<>>
    [] v.kind = "obj" -> DOMAIN v.membs # {}

ParseFail == [ok |-> FALSE, val |-> JNull, pos |-> 0]
ParseOk(v, p) == [ok |-> TRUE, val |-> v, pos |-> p]

Digits == {"0", "1"}
DigitVal(c) == IF c = "1" THEN 1 ELSE 0
StringLexemes == {"\"\"", "\"k\""}
StringContent(u) == IF u = "\"k\"" THEN <<"k">> ELSE <<>>

RECURSIVE ParseDigits(_, _, _)
ParseDigits(s, i, acc) ==
  IF i <= Len(s) /\ s[i] \in Digits
  THEN ParseDigits(s, i+1, 10 * acc + DigitVal(s[i]))
  ELSE ParseOk(JNum(acc), i)

\* NUMBER_RE: 0 | [1-9][0-9]*, the longest match at position i
ParseNumber(s, i) ==
  IF s[i] = "0" THEN ParseOk(JNum(0), i+1) ELSE ParseDigits(s, i, 0)

RECURSIVE ParseValue(_, _)
RECURSIVE ParseElements(_, _, _)
RECURSIVE ParseMembers(_, _, _)

\* scan_once
ParseValue(s, i) ==
  IF i > Len(s) THEN ParseFail
  ELSE CASE s[i] = "null" -> ParseOk(JNull, i+1)
         [] s[i] = "false" -> ParseOk(JBool(FALSE), i+1)
         [] s[i] \in Digits -> ParseNumber(s, i)
         [] s[i] \in StringLexemes -> ParseOk(JStr(StringContent(s[i])), i+1)
         [] s[i] = "[" ->
              IF i+1 <= Len(s) /\ s[i+1] = "]" THEN ParseOk(JArr(<<>>), i+2)
              ELSE ParseElements(s, i+1, <<>>)
         [] s[i] = "{" ->
              IF i+1 <= Len(s) /\ s[i+1] = "}" THEN ParseOk(JObj(EmptyDict), i+2)
              ELSE ParseMembers(s, i+1, EmptyDict)
         [] OTHER -> ParseFail

\* JSONArray: value (',' value)* ']'
ParseElements(s, i, acc) ==
  LET r == ParseValue(s, i) IN
  IF ~r.ok \/ r.pos > Len(s) THEN ParseFail
  ELSE IF s[r.pos] = "," THEN ParseElements(s, r.pos + 1, Append(acc, r.val))
  ELSE IF s[r.pos] = "]" THEN ParseOk(JArr(Append(acc, r.val)), r.pos + 1)
  ELSE ParseFail

\* JSONObject: string ':' value (',' string ':' value)* '}', last key wins
ParseMembers(s, i, acc) ==
  IF i + 1 > Len(s) \/ s[i] \notin StringLexemes \/ s[i+1] # ":" THEN ParseFail
  ELSE LET r == ParseValue(s, i+2)
           m == DictPut(acc, StringContent(s[i]), r.val) IN
       IF ~r.ok \/ r.pos > Len(s) THEN ParseFail
       ELSE IF s[r.pos] = "," THEN ParseMembers(s, r.pos + 1, m)
       ELSE IF s[r.pos] = "}" THEN ParseOk(JObj(m), r.pos + 1)
       ELSE ParseFail

\* json.loads(text): ok = FALSE stands for JSONDecodeError
JsonLoads(s) ==
  LET r == ParseValue(s, 1) IN
  IF r.ok /\ r.pos = Len(s) + 1 THEN r ELSE ParseFail

\* ------------------------------------------------- '--data' sub-schema
\* a callable in a Schema accepts the data when the call returns a true value
DataCallableAccepts(text) == JsonLoads(text).ok /\ Truthy(JsonLoads(text).val)

\* Or(None, json.loads)
DataValid(d) == ~d.given \/ DataCallableAccepts(d.text)

\* ------------------------------------------------------------- logging
DEBUG == 10
INFO == 20
WARNING == 30
ERROR == 40

\* log level chosen without looking at --verbose
LogLevelAlwaysInfo(verbose) == INFO

\* logging.DEBUG if arguments['--verbose'] else logging.INFO
LogLevelFor(verbose) == IF verbose THEN DEBUG ELSE INFO

RequestLine(u, h, b) ==
  [level |-> DEBUG, what |-> "Sending request", url |-> u, headers |-> h,
   body |-> b, text |-> ""]
ResponseLine(lvl, t) ==
  [level |-> lvl, what |-> "response", url |-> <<>>, headers |-> EmptyDict,
   body |-> PyNone, text |-> t]

\* a record reaches the sink when its level is at least the root logger's
Emit(out, lvl, rec) == IF rec.level >= lvl THEN Append(out, rec) ELSE out

\* ------------------------------------------------------ _log_response
\* a result that ignores r.ok
LogResponseRcAlwaysZero(r) == 0

LogResponseRc(r) == IF r.ok THEN 0 ELSE 1

LogResponseLevel(r) == IF r.ok THEN INFO ELSE ERROR

\* ------------------------------------------------------------- inputs
HttpScheme == <<"h", "t", "t", "p">>
SchemeSep == <<":", "/", "/">>
UrlFrags == {HttpScheme, <<"s">>, SchemeSep, <<"x">>, <<":">>, <<"/">>}
AllUrls == {Join(fs) : fs \in SeqsUpTo(UrlFrags, MaxUrlFrags)}
CoreUrls == {HttpScheme \o SchemeSep \o <<"x">>, <<"x">>}

HeaderChars == {"a", "b", "="}
HeaderEntries == SeqsUpTo(HeaderChars, MaxEntryLen)
AllHeaderLists == SeqsUpTo(HeaderEntries, MaxHeaders)
CoreHeaderLists == { <<>>, << <<"a", "=">> >>, << <<"=", "=">>, <<"a">> >> }

NoData == [given |-> FALSE, text |-> <<>>]
Data(t) == [given |-> TRUE, text |-> t]
DataUnits == {"{", "}", "[", "]", ":", ",", "0", "1", "\"\"", "\"k\"", "false", "null"}
SampleTexts ==
  { <<"{", "\"k\"", ":", "0", "}">>,
    <<"{", "\"k\"", ":", "0", ",", "\"k\"", ":", "1", "}">>,
    <<"[", "0", ",", "1", "]">>,
    <<"{", "\"k\"", ":", "}">>,
    <<"[", "0", ",", "]">> }
AllData == {NoData} \cup {Data(t) : t \in SeqsUpTo(DataUnits, MaxDataLen) \cup SampleTexts}
CoreData == {NoData, Data(<<"1">>), Data(<<"{", "}">>)}

\* docopt's usage pattern (get|put|post): exactly one command is True
Commands == {"get", "post", "put"}

\* one field ranges over all its values while the others are acceptable,
\* and the small sets are combined in full
InputTriples ==
  (AllUrls \X {<< <<"a", "=">> >>} \X {NoData})
    \cup ({HttpScheme \o SchemeSep \o <<"x">>} \X AllHeaderLists \X {NoData})
    \cup ({HttpScheme \o SchemeSep \o <<"x">>} \X {<< <<"a", "=">> >>} \X AllData)
    \cup (CoreUrls \X CoreHeaderLists \X CoreData)

Responses == [ok : BOOLEAN, text : {"ok", "server error"}]

\* -------------------------------------------------------------- state
VARIABLES arguments, pc, schemaError, fault, stdout, logLevel, logOutput,
          url, headers, body, rc, requests, response, result

vars == <<arguments, pc, schemaError, fault, stdout, logLevel, logOutput,
          url, headers, body, rc, requests, response, result>>

Init ==
  /\ \E t \in InputTriples, v \in BOOLEAN, c \in Commands :
       arguments = [url |-> t[1], headers |-> t[2], data |-> t[3], verbose |-> v,
                    get |-> (c = "get"), post |-> (c = "post"), put |-> (c = "put")]
  /\ pc = "validate"
  /\ schemaError = ""
  /\ fault = ""
  /\ stdout = <<>>
  /\ logLevel = WARNING
  /\ logOutput = <<>>
  /\ url = <<>>
  /\ headers = EmptyDict
  /\ body = PyNone
  /\ rc = <<>>
  /\ requests = <<>>
  /\ response = [ok |-> FALSE, text |-> ""]
  /\ result = <<>>

\* ------------------------------------------------------------- main()
UrlError == "URL must begin with http:// or https://."
DataError == "Body must be in json format."
HeadersError == "Headers must be in KEY=VALUE format."

\* the error messages of the keys whose sub-schema rejects its value
FailingKeys(a) ==
  (IF UrlValid(a.url) THEN {} ELSE {UrlError})
    \cup (IF DataValid(a.data) THEN {} ELSE {DataError})
    \cup (IF HeadersValid(a.headers) THEN {} ELSE {HeadersError})

\* lines 86-101: the Schema is built inside the try block (which raises
\* nothing) and schema.validate runs after it; every key is accepted
ValidateAccepts ==
  /\ pc = "validate"
  /\ FailingKeys(arguments) = {}
  /\ pc' = "configure"
  /\ UNCHANGED <<arguments, schemaError, fault, stdout, logLevel, logOutput,
                 url, headers, body, rc, requests, response, result>>

\* line 101: schema.validate raises SchemaError for the first rejected key it
\* meets (the order is the dict order of docopt's result); no handler encloses
\* the call, so the exception leaves main
ValidateRaises ==
  /\ pc = "validate"
  /\ \E m \in FailingKeys(arguments) : schemaError' = m
  /\ fault' = "SchemaError"
  /\ pc' = "fault"
  /\ UNCHANGED <<arguments, stdout, logLevel, logOutput,
                 url, headers, body, rc, requests, response, result>>

\* lines 102-104
ConfigureLogging ==
  /\ pc = "configure"
  /\ logLevel' = LogLevelFor(arguments.verbose)
  /\ pc' = "build"
  /\ UNCHANGED <<arguments, schemaError, fault, stdout, logOutput,
                 url, headers, body, rc, requests, response, result>>

\* line 108: json.loads(arguments['--data']) if arguments['--data'] else None
BodyRaises(d) == d.given /\ d.text # <<>> /\ ~JsonLoads(d.text).ok
BodyOf(d) == IF d.given /\ d.text # <<>> THEN JsonLoads(d.text).val ELSE PyNone

\* lines 106-111
BuildRequest ==
  /\ pc = "build"
  /\ ~HeadersRaise(arguments.headers)
  /\ ~BodyRaises(arguments.data)
  /\ url' = arguments.url
  /\ headers' = HeaderDict(arguments.headers)
  /\ body' = BodyOf(arguments.data)
  /\ rc' = <<0>>
  /\ logOutput' = Emit(logOutput, logLevel,
                       RequestLine(url', headers', body'))
  /\ pc' = "dispatch"
  /\ UNCHANGED <<arguments, schemaError, fault, stdout, logLevel,
                 requests, response, result>>

\* lines 107-108: an exception while building the headers or the body
BuildRaises ==
  /\ pc = "build"
  /\ HeadersRaise(arguments.headers) \/ BodyRaises(arguments.data)
  /\ url' = arguments.url
  /\ fault' = IF HeadersRaise(arguments.headers) THEN "IndexError"
              ELSE "JSONDecodeError"
  /\ pc' = "fault"
  /\ UNCHANGED <<arguments, schemaError, stdout, logLevel, logOutput,
                 headers, body, rc, requests, response, result>>

\* lines 113-118: the if/elif chain
SelectedVerb(a) ==
  IF a.get THEN "GET" ELSE IF a.post THEN "POST" ELSE IF a.put THEN "PUT" ELSE ""

\* lines 113-118 with 37, 51, 65: the requests call is entered
SendRequest ==
  /\ pc = "dispatch"
  /\ IF SelectedVerb(arguments) = ""
     THEN pc' = "return" /\ UNCHANGED requests
     ELSE /\ requests' = Append(requests,
                [verb |-> SelectedVerb(arguments), url |-> url,
                 headers |-> headers, json |-> body])
          /\ pc' = "awaiting"
  /\ UNCHANGED <<arguments, schemaError, fault, stdout, logLevel, logOutput,
                 url, headers, body, rc, response, result>>

\* the requests call returns a Response
ReceiveResponse ==
  /\ pc = "awaiting"
  /\ \E r \in Responses : response' = r
  /\ pc' = "log"
  /\ UNCHANGED <<arguments, schemaError, fault, stdout, logLevel, logOutput,
                 url, headers, body, rc, requests, result>>

\* a handler around the call that turns the exception into exit code 1
TransportFaultCaught ==
  /\ pc = "awaiting"
  /\ fault' = "TransportFault"
  /\ result' = <<1>>
  /\ pc' = "returned"
  /\ UNCHANGED <<arguments, schemaError, stdout, logLevel, logOutput,
                 url, headers, body, rc, requests, response>>

\* the requests call raises (DNS, connection, TLS, timeout); neither
\* get/post/put nor main has a handler
TransportFault ==
  /\ pc = "awaiting"
  /\ fault' = "TransportFault"
  /\ pc' = "fault"
  /\ UNCHANGED <<arguments, schemaError, stdout, logLevel, logOutput,
                 url, headers, body, rc, requests, response, result>>

\* lines 77-81, and the assignment of the result to rc
LogResponse ==
  /\ pc = "log"
  /\ logOutput' = Emit(logOutput, logLevel,
                       ResponseLine(LogResponseLevel(response), response.text))
  /\ rc' = <<LogResponseRc(response)>>
  /\ pc' = "return"
  /\ UNCHANGED <<arguments, schemaError, fault, stdout, logLevel,
                 url, headers, body, requests, response, result>>

\* line 120
Return ==
  /\ pc = "return"
  /\ result' = rc
  /\ pc' = "returned"
  /\ UNCHANGED <<arguments, schemaError, fault, stdout, logLevel, logOutput,
                 url, headers, body, rc, requests, response>>

Next ==
  \/ ValidateAccepts
  \/ ValidateRaises
  \/ ConfigureLogging
  \/ BuildRequest
  \/ BuildRaises
  \/ SendRequest
  \/ ReceiveResponse
  \/ TransportFault
  \/ LogResponse
  \/ Return

Spec == Init /\ [][Next]_vars

\* ------------------------------------------------------------- claims
HasPrefix(s, p) == Len(s) >= Len(p) /\ SubSeq(s, 1, Len(p)) = p
HasHttpPrefix(s) ==
  \/ HasPrefix(s, HttpScheme \o SchemeSep)
  \/ HasPrefix(s, HttpScheme \o <<"s">> \o SchemeSep)

EqPositions(e) == {i \in 1..Len(e) : e[i] = "="}
FirstEq(e) == CHOOSE i \in EqPositions(e) : \A j \in EqPositions(e) : i <= j
KeyOf(e) == IF EqPositions(e) = {} THEN e ELSE SubSeq(e, 1, FirstEq(e) - 1)
ValueOf(e) == IF EqPositions(e) = {} THEN <<>> ELSE SubSeq(e, FirstEq(e) + 1, Len(e))
WellFormed(e) == Cardinality(EqPositions(e)) = 1
AllWellFormed(hs) == \A i \in 1..Len(hs) : WellFormed(hs[i])
LastWithKey(hs, k) ==
  CHOOSE i \in 1..Len(hs) :
    KeyOf(hs[i]) = k /\ \A j \in 1..Len(hs) : KeyOf(hs[j]) = k => j <= i
ExpectedHeaders(hs) ==
  [k \in {KeyOf(hs[i]) : i \in 1..Len(hs)} |-> ValueOf(hs[LastWithKey(hs, k)])]

ValidationDone == pc # "validate"
ValidationFailed == fault = "SchemaError"
RequestBuilt == rc # <<>>
Ended == pc \in {"returned", "fault"}
ExpectedLevel == IF arguments.verbose THEN DEBUG ELSE INFO

\* C1: every header list whose entries each hold exactly one '=' (the empty
\* list included) is accepted by validation, and the header mapping built from
\* it holds, for each key, the value of the last entry with that key.
C1_WellFormedHeadersAccepted ==
  (ValidationDone /\ AllWellFormed(arguments.headers)) =>
    /\ schemaError # HeadersError
    /\ RequestBuilt => headers = ExpectedHeaders(arguments.headers)

\* C2: a non-empty header list with an entry that does not hold exactly one
\* '=' fails validation, and no request is issued for it.
C2_MalformedHeadersRejected ==
  (ValidationDone /\ arguments.headers # <<>> /\ ~AllWellFormed(arguments.headers)) =>
    (ValidationFailed /\ requests = <<>>)

\* C3: --data that is valid JSON (falsy values included) passes validation and
\* the request body is its parsed value; --data that is not valid JSON fails
\* validation; absent --data passes with no body.
C3_JsonBodyAccepted ==
  ValidationDone =>
    LET d == arguments.data IN
    /\ (d.given /\ JsonLoads(d.text).ok) =>
         /\ schemaError # DataError
         /\ requests # <<>> => requests[1].json = JsonLoads(d.text).val
    /\ (d.given /\ ~JsonLoads(d.text).ok) => ValidationFailed
    /\ ~d.given =>
         /\ schemaError # DataError
         /\ requests # <<>> => requests[1].json = PyNone

\* C4: a validation failure is printed and main returns 1, with no request
\* issued.
C4_ValidationErrorReturnsOne ==
  ValidationFailed =>
    /\ pc = "returned"
    /\ result = <<1>>
    /\ stdout # <<>>
    /\ requests = <<>>

\* C5: the URL is accepted by validation if and only if it begins with
\* http:// or https://.
C5_UrlAcceptedIffSchemePrefix ==
  ValidationDone =>
    /\ ~HasHttpPrefix(arguments.url) => ValidationFailed
    /\ HasHttpPrefix(arguments.url) => schemaError # UrlError
    /\ (~HasHttpPrefix(arguments.url) /\ DataValid(arguments.data)
          /\ HeadersValid(arguments.headers)) => schemaError = UrlError

\* C5 witness: a URL that holds http:// after another character was rejected
C5_Witness ==
  /\ arguments.url = <<"x">> \o HttpScheme \o SchemeSep
  /\ schemaError = UrlError
  /\ pc = "fault"

\* C6: after a response, the exit code is 0 with the body logged at INFO when
\* the response is ok, and 1 with the body logged at ERROR otherwise; main
\* returns that code, so its result is 0 or 1 and 0 only after an ok response.
C6_ExitCodeFollowsResponse ==
  /\ result \in {<<>>, <<0>>, <<1>>}
  /\ pc \in {"return", "returned"} =>
       /\ rc = <<IF response.ok THEN 0 ELSE 1>>
       /\ logOutput # <<>>
       /\ logOutput[Len(logOutput)] =
            ResponseLine(IF response.ok THEN INFO ELSE ERROR, response.text)
       /\ Cardinality({i \in 1..Len(logOutput) : logOutput[i].what = "response"}) = 1
  /\ pc = "returned" => result = rc
  /\ result = <<0>> => response.ok

\* C6 witness: main returned 1 after a response that is not ok
C6_Witness ==
  /\ pc = "returned"
  /\ result = <<1>>
  /\ ~response.ok
  /\ logOutput[Len(logOutput)].level = ERROR

\* C7: an invocation that passed validation issues exactly one request, with
\* the selected verb, the header mapping and the parsed body.
C7_ExactlyOneRequest ==
  (Ended /\ ~ValidationFailed) =>
    /\ Len(requests) = 1
    /\ requests[1] = [verb |-> SelectedVerb(arguments), url |-> arguments.url,
                      headers |-> headers, json |-> BodyOf(arguments.data)]

\* C8: a transport fault is not caught: main returns no exit code, no response
\* body is logged, and the one request is not followed by another.
C8_TransportFaultPropagates ==
  fault = "TransportFault" =>
    /\ pc = "fault"
    /\ result = <<>>
    /\ Len(requests) = 1
    /\ \A i \in 1..Len(logOutput) : logOutput[i].what # "response"

\* C8 witness: the request call raised
C8_Witness ==
  /\ fault = "TransportFault"
  /\ Len(requests) = 1
  /\ pc = "fault"

\* C9: the conversion of an accepted header list completes without a fault
\* and splits each entry on its first '=' only.
C9_SplitOnFirstEquals ==
  (ValidationDone /\ ~ValidationFailed /\ pc \notin {"configure", "build"}) =>
    /\ fault # "IndexError"
    /\ headers = ExpectedHeaders(arguments.headers)

\* C10: after validation the log level is DEBUG with --verbose and INFO
\* without, and it is set before the request is issued; the DEBUG line with
\* url, headers and body is in the output when the request is issued if and
\* only if --verbose was given.
C10_LogLevelBeforeRequest ==
  /\ [](pc \in {"build", "dispatch", "awaiting", "log", "return", "returned"}
          => logLevel = ExpectedLevel)
  /\ [](\A i \in 1..Len(logOutput) :
          logOutput[i].level = DEBUG => arguments.verbose)
  /\ [][requests' # requests =>
          /\ logLevel = ExpectedLevel
          /\ arguments.verbose <=>
               (logOutput # <<>> /\ logOutput[1] = RequestLine(url, headers, body))]_vars

\* C10 witness: a verbose invocation issued its request after the DEBUG line
C10_Witness ==
  /\ arguments.verbose
  /\ requests # <<>>
  /\ logLevel = DEBUG
  /\ logOutput[1].what = "Sending request"

====
